---- MODULE Spec2Model ----
(***************************************************************************)
(* Model of ros2_ouster/conversions.hpp: the host-endianness probe         *)
(* IS_BIGENDIAN and the toMsg conversions (transform, point cloud, laser   *)
(* scan).  The conversions are pure functions of their arguments; the      *)
(* state of the model is the static flag, the call the driver made last    *)
(* and what it returned.                                                   *)
(*                                                                         *)
(* Machine integers are scaled: std::uint32_t is U32Bits wide and          *)
(* std::size_t twice that, so that the wrap-around of the 32-bit index     *)
(* arithmetic is within reach of the model checker.  Every formula is      *)
(* written against U32 and SIZE, not against the scaled numbers.           *)
(*                                                                         *)
(* Doubles are exact values num/den * 10^e10 * pi^pi; den = 0 stands for   *)
(* the non-finite result (inf or NaN) of an IEEE division by zero.         *)
(***************************************************************************)
EXTENDS Integers, Naturals, Sequences, FiniteSets, TLC

\* ------------------------------------------------------------ bounds
\* width of std::uint32_t in the model (32 in the build)
U32Bits == 3
\* sizeof(point_os::PointOS) in the model (48 in the build, conversions.hpp:199)
pt_size == 3
\* largest height / realwidth / num_lasers the driver passes
MaxDim == 5
\* largest number of records of an input cloud
MaxPoints == 12
\* largest number of samples of an input scan
MaxScans == 10

U32 == 2 ^ U32Bits
SIZE == 2 ^ (2 * U32Bits)
INT_MAX == (U32 \div 2) - 1

\* ------------------------------------------------------------ doubles
Real(num, den, e10, pi) == [num |-> num, den |-> den, e10 |-> e10, pi |-> pi]

\* x / d for a double d converted from an unsigned integer
DivReal(x, d) == [x EXCEPT !.den = x.den * d]

\* x * d
MulReal(x, d) == [x EXCEPT !.num = x.num * d]

Finite(x) == x.den # 0

\* equality of two finite values
EqReal(x, y) ==
  /\ Finite(x) /\ Finite(y)
  /\ x.num * y.den = y.num * x.den
  /\ (x.num # 0 => (x.e10 = y.e10 /\ x.pi = y.pi))

M_PI == Real(1, 1, 0, 1)

\* ------------------------------------------------------------ endianness
\* the bytes of std::uint16_t dummy = 0x1, lowest address first
BytesOfOne(order) == IF order = "little" THEN <<1, 0>> ELSE <<0, 1>>

\* the initializer of IS_BIGENDIAN
Probe(order) == IF BytesOfOne(order)[1] = 1 THEN FALSE ELSE TRUE

\* ------------------------------------------------------------ point cloud
Dims == 0 .. MaxDim
Frames == {"laser_data_frame", "base_link"}
Stamps == {0, 5}
\* the (timestamp, frame) pairs the driver stamps a revolution with
Headers == {<<0, "laser_data_frame">>, <<5, "base_link">>}
GarbageBytes == {0, 170}
CloudPatterns == {0, 1, 90}

\* the byte image of the k-th record (k from 0) of an input cloud
PointImage(k, pat) ==
  [b \in 1 .. pt_size |->
     IF pat = 0 THEN 7 ELSE (pat + k * pt_size + b) % 256]

MakePoints(n, pat) == [k \in 1 .. n |-> PointImage(k - 1, pat)]

\* the record counts tried for a height x realwidth shape: none, one short,
\* exactly filled, over-allocated
PointCounts(h, w) ==
  {IF c < MaxPoints THEN c ELSE MaxPoints :
     c \in {0, h * w, h * w + 1} \cup (IF h * w > 0 THEN {h * w - 1} ELSE {})}

\* j * cloud2.width + i: the int operands are converted to unsigned int
DstIndex(i, j, width, height) == (j * width + i) % U32

\* i * cloud2.height + j
SrcIndex(i, j, width, height) == (i * height + j) % U32

RowStep(width) == (pt_size * width) % U32

\* data_size = pt_size * cloud2.width * cloud2.height, in std::size_t
DataSize(cloud, width) == (pt_size * width * cloud.height) % SIZE

\* what &cloud.points[idx] holds for memcpy to read
SrcRecord(points, idx, g) ==
  IF idx < Len(points) THEN points[idx + 1] ELSE [b \in 1 .. pt_size |-> g]

\* one std::memcpy of the inner loop; a copy that would land past the end
\* of data leaves the part of it inside data
CopyRecord(data, points, i, j, width, height, g) ==
  LET dst == (DstIndex(i, j, width, height) * pt_size) % SIZE
      rec == SrcRecord(points, SrcIndex(i, j, width, height), g)
  IN [k \in 1 .. Len(data) |->
        IF k - 1 >= dst /\ k - 1 < dst + pt_size THEN rec[k - dst] ELSE data[k]]

\* whether that memcpy reads or writes out of range
CopyIsUB(datalen, npoints, i, j, width, height) ==
  \/ SrcIndex(i, j, width, height) >= npoints
  \/ ((DstIndex(i, j, width, height) * pt_size) % SIZE) + pt_size > datalen

\* the two loops, iteration n of width * height (i = n div height)
RECURSIVE CopyLoop(_, _, _, _, _, _)
CopyLoop(data, points, n, width, height, g) ==
  IF n >= width * height THEN data
  ELSE CopyLoop(CopyRecord(data, points, n \div height, n % height,
                           width, height, g),
                points, n + 1, width, height, g)

\* the loops run out of range, or an int counter is incremented past INT_MAX
LoopIsUB(datalen, npoints, width, height) ==
  \/ width > INT_MAX
  \/ width > 0 /\ height > INT_MAX
  \/ \E i \in 0 .. width - 1, j \in 0 .. height - 1 :
        CopyIsUB(datalen, npoints, i, j, width, height)

EndianFlagConstant(flag) == FALSE

\* cloud2.is_bigendian = ros2_ouster::IS_BIGENDIAN
EndianFlag(flag) == flag

\* toMsg(const pcl::PointCloud<point_os::PointOS> &, uint32_t & realwidth, ...)
toMsg_PointCloud2(cloud, realwidth, timestamp, frame, flag, g) ==
  LET width == realwidth
      data_size == DataSize(cloud, width)
      zeros == [k \in 1 .. data_size |-> 0]
  IN [ub |-> data_size # 0 /\ LoopIsUB(data_size, Len(cloud.points), width, cloud.height),
      reads |-> IF data_size # 0
                THEN {SrcIndex(i, j, width, cloud.height) :
                        i \in 0 .. width - 1, j \in 0 .. cloud.height - 1}
                ELSE {},
      msg |-> [height |-> cloud.height,
               width |-> width,
               point_step |-> pt_size % U32,
               row_step |-> RowStep(width),
               is_dense |-> cloud.is_dense,
               is_bigendian |-> EndianFlag(flag),
               data |-> IF data_size # 0
                        THEN CopyLoop(zeros, cloud.points, 0, width, cloud.height, g)
                        ELSE zeros,
               frame_id |-> frame,
               stamp |-> timestamp]]

\* the outcomes of a call: its result, or under undefined behaviour a fault
\* or the result computed from whatever the out-of-range reads returned
Outcomes(r) ==
  {[status |-> "ok", ub |-> r.ub, reads |-> r.reads, msg |-> r.msg]} \cup
  (IF r.ub THEN {[status |-> "fault", ub |-> TRUE, reads |-> r.reads]} ELSE {})

\* ------------------------------------------------------------ laser scan
RingPatterns == 1 .. 4
TimeBases == {100, 5000000}
Rings == 0 .. 2
RangeCycle == <<5, 3, 7>>

\* the k-th sample (k from 0) of an input scan: rings tiled per column
\* (k mod pat) or in blocks of two
ScanSample(k, pat, tbase) ==
  [range |-> RangeCycle[(k % 3) + 1],
   intensity |-> 10 * (k + 1),
   ring |-> IF pat <= 3 THEN k % pat ELSE (k \div 2) % 2,
   t |-> tbase * (k + 1)]

MakeScans(n, pat, tbase) == [k \in 1 .. n |-> ScanSample(k - 1, pat, tbase)]

\* what scans[i] evaluates to; out of range it is whatever lies there
ScanAt(scans, i, g) ==
  IF i < Len(scans) THEN scans[i + 1]
  ELSE [range |-> g, intensity |-> g, ring |-> g % 3, t |-> g]

RealSizeInclusive(num_lasers, realwidth) == (num_lasers * realwidth + 1) % U32

\* uint32_t real_size = mdata.num_lasers * realwidth
RealSize(num_lasers, realwidth) == (num_lasers * realwidth) % U32

DtsOfLast(scans, g) ==
  Real(ScanAt(scans, IF Len(scans) = 0 THEN 0 ELSE Len(scans) - 1, g).t, 1, 0 - 9, 0)

\* dts = (double)(scans[0].t) * 1e-9
Dts(scans, g) == Real(ScanAt(scans, 0, g).t, 1, 0 - 9, 0)

\* resolution = realwidth
Resolution(realwidth) == realwidth

\* the body of the loop: the two push_back under  scans[i].ring == ring_to_use
PushIfRing(out, s, ring_to_use) ==
  IF s.ring = ring_to_use
  THEN [out EXCEPT !.ranges = Append(@, Real(s.range, 1, 0 - 3, 0)),
                   !.intensities = Append(@, s.intensity)]
  ELSE out

\* the loop  for (uint i = 0; i != real_size; i++)
RECURSIVE ScanLoop(_, _, _, _, _, _)
ScanLoop(out, scans, i, real_size, ring_to_use, g) ==
  IF i = real_size THEN out
  ELSE ScanLoop(PushIfRing(out, ScanAt(scans, i, g), ring_to_use),
                scans, i + 1, real_size, ring_to_use, g)

\* toMsg(const std::vector<scan_os::ScanOS> &, uint32_t & realwidth, ...)
toMsg_LaserScan(scans, realwidth, timestamp, frame, num_lasers, ring_to_use, g) ==
  LET resolution == Resolution(realwidth)
      dts == Dts(scans, g)
      real_size == RealSize(num_lasers, realwidth)
      out == ScanLoop([ranges |-> <<>>, intensities |-> <<>>], scans, 0,
                      real_size, ring_to_use, g)
  IN [ub |-> Len(scans) = 0 \/ real_size > Len(scans),
      reads |-> {0} \cup (0 .. real_size - 1),
      msg |-> [stamp |-> timestamp,
               frame_id |-> frame,
               angle_min |-> Real(0, 1, 0, 0),
               angle_max |-> MulReal(M_PI, 2),
               range_min |-> Real(25, 1, 0 - 3, 0),
               range_max |-> Real(20, 1, 0, 0),
               scan_time |-> dts,
               time_increment |-> DivReal(dts, resolution),
               angle_increment |-> DivReal(MulReal(M_PI, 2), resolution),
               ranges |-> out.ranges,
               intensities |-> out.intensities]]

\* ------------------------------------------------------------ transform
Rotations ==
  {<<1, 0, 0, 0, 1, 0, 0, 0, 1>>,
   <<0, 0 - 1, 0, 1, 0, 0, 0, 0, 1>>,
   <<11, 12, 13, 21, 22, 23, 31, 32, 33>>}
Translations == {<<0, 0, 0>>, <<1000, 0 - 2000, 3500>>}
BottomRows == {<<0, 0, 0, 1>>, <<41, 42, 43, 44>>}
MatSizes == {0, 15, 16, 17}

\* a row-major 4x4 matrix, cut or padded to n elements
MakeMat(rot, trans, bottom, n) ==
  LET m == <<rot[1], rot[2], rot[3], trans[1],
             rot[4], rot[5], rot[6], trans[2],
             rot[7], rot[8], rot[9], trans[3],
             bottom[1], bottom[2], bottom[3], bottom[4]>>
  IN [k \in 1 .. n |-> IF k <= 16 THEN m[k] ELSE 0]

Mats ==
  {MakeMat(rot, trans, bottom, n) :
     rot \in Rotations, trans \in Translations, bottom \in BottomRows, n \in MatSizes}

\* mat[k]
At(mat, k) == mat[k + 1]

OriginOfBottomRow(mat) ==
  <<DivReal(Real(At(mat, 12), 1, 0, 0), 1000),
    DivReal(Real(At(mat, 13), 1, 0, 0), 1000),
    DivReal(Real(At(mat, 14), 1, 0, 0), 1000)>>

\* tf.setOrigin({mat[3] / 1e3, mat[7] / 1e3, mat[11] / 1e3})
Origin(mat) ==
  <<DivReal(Real(At(mat, 3), 1, 0, 0), 1000),
    DivReal(Real(At(mat, 7), 1, 0, 0), 1000),
    DivReal(Real(At(mat, 11), 1, 0, 0), 1000)>>

\* tf.setBasis({mat[0], mat[1], mat[2], mat[4], ...})
Basis(mat) ==
  <<At(mat, 0), At(mat, 1), At(mat, 2),
    At(mat, 4), At(mat, 5), At(mat, 6),
    At(mat, 8), At(mat, 9), At(mat, 10)>>

\* toMsg(const std::vector<double> & mat, frame, child_frame, time); the
\* rotation of the message is tf2's encoding of the basis handed to setBasis
toMsg_TransformStamped(mat, frame, child_frame, time) ==
  IF Len(mat) # 16
  THEN {[status |-> "assert"]}
  ELSE {[status |-> "ok", ub |-> FALSE,
         msg |-> [stamp |-> time,
                  frame_id |-> frame,
                  child_frame_id |-> child_frame,
                  transform |-> [translation |-> Origin(mat),
                                 rotation |-> Basis(mat)]]]}

\* ------------------------------------------------------------ state
\* host: the byte order of the machine; IS_BIGENDIAN, initialized: the static
\* flag and whether its initializer has run; call, ret: the conversion the
\* driver runs on its own and what it returned; cargs, cpos, cobj, cret: the
\* conversions of overlapping revolutions, one per slot: arguments, loop
\* counters, the message object under construction, and the value returned
VARIABLES host, IS_BIGENDIAN, initialized, call, ret, cargs, cpos, cobj, cret

vars == <<host, IS_BIGENDIAN, initialized, call, ret, cargs, cpos, cobj, cret>>

concvars == <<cargs, cpos, cobj, cret>>

Slots == 1 .. 2

NoCall == [kind |-> "none"]
NoRet == [status |-> "none"]
Idle == [pc |-> "idle"]
NoObj == [kind |-> "none"]

Init ==
  /\ host \in {"little", "big"}
  /\ IS_BIGENDIAN = FALSE
  /\ initialized = FALSE
  /\ call = NoCall
  /\ ret = NoRet
  /\ cargs = [s \in Slots |-> NoCall]
  /\ cpos = [s \in Slots |-> Idle]
  /\ cobj = [s \in Slots |-> NoObj]
  /\ cret = [s \in Slots |-> NoRet]

\* dynamic initialization of the namespace-scope constant, before main
StaticInit ==
  /\ ~initialized
  /\ IS_BIGENDIAN' = Probe(host)
  /\ initialized' = TRUE
  /\ UNCHANGED <<host, call, ret, concvars>>

CallPointCloud ==
  /\ initialized
  /\ call = NoCall
  /\ \E height \in Dims, realwidth \in Dims, pat \in CloudPatterns,
        dense \in BOOLEAN, hdr \in Headers, g \in GarbageBytes :
       \E n \in PointCounts(height, realwidth) :
         LET cloud == [points |-> MakePoints(n, pat), height |-> height,
                       is_dense |-> dense]
             ts == hdr[1]
             frame == hdr[2]
         IN /\ call' = [kind |-> "cloud", cloud |-> cloud, realwidth |-> realwidth,
                        timestamp |-> ts, frame |-> frame]
            /\ ret' \in Outcomes(toMsg_PointCloud2(cloud, realwidth, ts, frame,
                                                   IS_BIGENDIAN, g))
  /\ UNCHANGED <<host, IS_BIGENDIAN, initialized, concvars>>

CallScan ==
  /\ initialized
  /\ call = NoCall
  /\ \E num_lasers \in Dims, realwidth \in Dims, ring_to_use \in Rings,
        n \in 0 .. MaxScans, pat \in RingPatterns, tbase \in TimeBases,
        hdr \in Headers, g \in GarbageBytes :
       LET scans == MakeScans(n, pat, tbase)
           ts == hdr[1]
           frame == hdr[2]
       IN /\ call' = [kind |-> "scan", scans |-> scans, realwidth |-> realwidth,
                      timestamp |-> ts, frame |-> frame, num_lasers |-> num_lasers,
                      ring_to_use |-> ring_to_use]
          /\ ret' \in Outcomes(toMsg_LaserScan(scans, realwidth, ts, frame,
                                               num_lasers, ring_to_use, g))
  /\ UNCHANGED <<host, IS_BIGENDIAN, initialized, concvars>>

CallTransform ==
  /\ initialized
  /\ call = NoCall
  /\ \E mat \in Mats, frame \in Frames, child_frame \in Frames, time \in Stamps :
       /\ call' = [kind |-> "transform", mat |-> mat, frame |-> frame,
                   child_frame |-> child_frame, time |-> time]
       /\ ret' \in toMsg_TransformStamped(mat, frame, child_frame, time)
  /\ UNCHANGED <<host, IS_BIGENDIAN, initialized, concvars>>

\* the driver takes the message (ownership passes to the caller) and goes on
\* to the next revolution
Publish ==
  /\ call # NoCall
  /\ call' = NoCall
  /\ ret' = NoRet
  /\ UNCHANGED <<host, IS_BIGENDIAN, initialized, concvars>>

Next ==
  \/ StaticInit
  \/ CallPointCloud
  \/ CallScan
  \/ CallTransform
  \/ Publish

Spec == Init /\ [][Next]_vars
\* ------------------------------------------------------------ overlapping calls
\* largest height / realwidth / num_lasers of the overlapping revolutions
MaxConcDim == 2

ConcDims == 1 .. MaxConcDim
ConcPatterns == {1, 90}

\* the (timestamp, frame) the driver stamps the revolution of a slot with
RevolutionHeader(s) == <<s, "laser_data_frame">>

StaticObj(s) == 1

\* cloud2 (and msg of the scan conversion) is an automatic object: every call
\* constructs its own
ObjOf(s) == s

\* whether another call is in the middle of its loop
OtherInLoop(s) ==
  \E t \in Slots \ {s} : cpos[t].pc = "loop" /\ cpos[t].i + cpos[t].j > 0

\* point cloud: the statements before the loops
ConcStartCloud(s) ==
  /\ initialized
  /\ cargs[s] = NoCall
  /\ \E height \in ConcDims, realwidth \in ConcDims, pat \in ConcPatterns :
       LET hdr == RevolutionHeader(s)
           cloud == [points |-> MakePoints(height * realwidth, pat),
                     height |-> height, is_dense |-> TRUE]
           data_size == DataSize(cloud, realwidth)
       IN /\ cargs' = [cargs EXCEPT ![s] =
                         [kind |-> "cloud", cloud |-> cloud, realwidth |-> realwidth,
                          timestamp |-> hdr[1], frame |-> hdr[2]]]
          /\ cobj' = [cobj EXCEPT ![ObjOf(s)] =
                        [kind |-> "cloud2",
                         height |-> cloud.height,
                         width |-> realwidth,
                         point_step |-> pt_size % U32,
                         row_step |-> RowStep(realwidth),
                         is_dense |-> cloud.is_dense,
                         is_bigendian |-> EndianFlag(IS_BIGENDIAN),
                         data |-> [k \in 1 .. data_size |-> 0]]]
          /\ cpos' = [cpos EXCEPT ![s] =
                        [pc |-> IF data_size # 0 THEN "loop" ELSE "return",
                         i |-> 0, j |-> 0, reads |-> {}, ub |-> FALSE,
                         mixed |-> FALSE]]
  /\ UNCHANGED <<host, IS_BIGENDIAN, initialized, call, ret, cret>>

\* point cloud: one evaluation of a loop condition and what follows it
ConcStepCloud(s) ==
  /\ cargs[s].kind = "cloud"
  /\ cpos[s].pc = "loop"
  /\ cobj[ObjOf(s)].kind = "cloud2"
  /\ LET o == cobj[ObjOf(s)]
         p == cpos[s]
         mixed == p.mixed \/ OtherInLoop(s)
     IN IF p.i < o.width
        THEN IF p.j < o.height
             THEN /\ cobj' = [cobj EXCEPT ![ObjOf(s)].data =
                                CopyRecord(o.data, cargs[s].cloud.points, p.i, p.j,
                                           o.width, o.height, 0)]
                  /\ cpos' = [cpos EXCEPT ![s].j = p.j + 1,
                                          ![s].reads = p.reads \cup
                                             {SrcIndex(p.i, p.j, o.width, o.height)},
                                          ![s].ub = p.ub \/
                                             CopyIsUB(Len(o.data),
                                                      Len(cargs[s].cloud.points),
                                                      p.i, p.j, o.width, o.height),
                                          ![s].mixed = mixed]
             ELSE /\ cpos' = [cpos EXCEPT ![s].i = p.i + 1, ![s].j = 0,
                                          ![s].mixed = mixed]
                  /\ UNCHANGED cobj
        ELSE /\ cpos' = [cpos EXCEPT ![s].pc = "return", ![s].mixed = mixed]
             /\ UNCHANGED cobj
  /\ UNCHANGED <<host, IS_BIGENDIAN, initialized, call, ret, cargs, cret>>

\* laser scan: the statements before the loop
ConcStartScan(s) ==
  /\ initialized
  /\ cargs[s] = NoCall
  /\ \E num_lasers \in ConcDims, realwidth \in ConcDims, ring_to_use \in 0 .. 1 :
       LET hdr == RevolutionHeader(s)
           scans == MakeScans(num_lasers * realwidth, 2, 100)
           dts == Dts(scans, 0)
           resolution == Resolution(realwidth)
       IN /\ cargs' = [cargs EXCEPT ![s] =
                         [kind |-> "scan", scans |-> scans, realwidth |-> realwidth,
                          timestamp |-> hdr[1], frame |-> hdr[2],
                          num_lasers |-> num_lasers, ring_to_use |-> ring_to_use]]
          /\ cobj' = [cobj EXCEPT ![ObjOf(s)] =
                        [kind |-> "msg",
                         stamp |-> hdr[1],
                         frame_id |-> hdr[2],
                         angle_min |-> Real(0, 1, 0, 0),
                         angle_max |-> MulReal(M_PI, 2),
                         range_min |-> Real(25, 1, 0 - 3, 0),
                         range_max |-> Real(20, 1, 0, 0),
                         scan_time |-> dts,
                         time_increment |-> DivReal(dts, resolution),
                         angle_increment |-> DivReal(MulReal(M_PI, 2), resolution),
                         ranges |-> <<>>,
                         intensities |-> <<>>]]
          /\ cpos' = [cpos EXCEPT ![s] =
                        [pc |-> "loop", i |-> 0, j |-> 0,
                         real_size |-> RealSize(num_lasers, realwidth),
                         reads |-> {0}, ub |-> Len(scans) = 0, mixed |-> FALSE]]
  /\ UNCHANGED <<host, IS_BIGENDIAN, initialized, call, ret, cret>>

\* laser scan: one evaluation of the loop condition and what follows it
ConcStepScan(s) ==
  /\ cargs[s].kind = "scan"
  /\ cpos[s].pc = "loop"
  /\ cobj[ObjOf(s)].kind = "msg"
  /\ LET o == cobj[ObjOf(s)]
         p == cpos[s]
         mixed == p.mixed \/ OtherInLoop(s)
         out == PushIfRing([ranges |-> o.ranges, intensities |-> o.intensities],
                           ScanAt(cargs[s].scans, p.i, 0), cargs[s].ring_to_use)
     IN IF p.i # p.real_size
        THEN /\ cobj' = [cobj EXCEPT ![ObjOf(s)].ranges = out.ranges,
                                     ![ObjOf(s)].intensities = out.intensities]
             /\ cpos' = [cpos EXCEPT ![s].i = p.i + 1,
                                     ![s].reads = p.reads \cup {p.i},
                                     ![s].ub = p.ub \/ p.i >= Len(cargs[s].scans),
                                     ![s].mixed = mixed]
        ELSE /\ cpos' = [cpos EXCEPT ![s].pc = "return", ![s].mixed = mixed]
             /\ UNCHANGED cobj
  /\ UNCHANGED <<host, IS_BIGENDIAN, initialized, call, ret, cargs, cret>>

\* the message object as the returned message: moveFromPCL and the header of
\* the point cloud, msg itself for the scan
ReturnedMsg(o, args) ==
  IF o.kind = "cloud2"
  THEN [height |-> o.height, width |-> o.width, point_step |-> o.point_step,
        row_step |-> o.row_step, is_dense |-> o.is_dense,
        is_bigendian |-> o.is_bigendian, data |-> o.data,
        frame_id |-> args.frame, stamp |-> args.timestamp]
  ELSE [stamp |-> o.stamp, frame_id |-> o.frame_id, angle_min |-> o.angle_min,
        angle_max |-> o.angle_max, range_min |-> o.range_min,
        range_max |-> o.range_max, scan_time |-> o.scan_time,
        time_increment |-> o.time_increment,
        angle_increment |-> o.angle_increment,
        ranges |-> o.ranges, intensities |-> o.intensities]

\* return msg
ConcReturn(s) ==
  /\ cpos[s].pc = "return"
  /\ cobj[ObjOf(s)] # NoObj
  /\ cret' = [cret EXCEPT ![s] =
                [status |-> "ok", ub |-> cpos[s].ub, reads |-> cpos[s].reads,
                 msg |-> ReturnedMsg(cobj[ObjOf(s)], cargs[s])]]
  /\ cpos' = [cpos EXCEPT ![s].pc = "done"]
  /\ cobj' = [cobj EXCEPT ![ObjOf(s)] = NoObj]
  /\ UNCHANGED <<host, IS_BIGENDIAN, initialized, call, ret, cargs>>

\* the driver takes the message of the slot
ConcPublish(s) ==
  /\ cpos[s].pc = "done"
  /\ cargs' = [cargs EXCEPT ![s] = NoCall]
  /\ cpos' = [cpos EXCEPT ![s] = Idle]
  /\ cret' = [cret EXCEPT ![s] = NoRet]
  /\ UNCHANGED <<host, IS_BIGENDIAN, initialized, call, ret, cobj>>

NextConc ==
  \/ StaticInit
  \/ \E s \in Slots : ConcStartCloud(s)
  \/ \E s \in Slots : ConcStepCloud(s)
  \/ \E s \in Slots : ConcStartScan(s)
  \/ \E s \in Slots : ConcStepScan(s)
  \/ \E s \in Slots : ConcReturn(s)
  \/ \E s \in Slots : ConcPublish(s)

SpecConc == Init /\ [][NextConc]_vars

\* ============================================================ properties
CloudCall == call.kind = "cloud"
CloudReturned == CloudCall /\ ret.status = "ok"
ScanCall == call.kind = "scan"
ScanReturned == ScanCall /\ ret.status = "ok"
TransformCall == call.kind = "transform"

\* the record at linear offset idx of a wire buffer (empty when data is too short)
RecordAt(data, idx) ==
  IF (idx + 1) * pt_size <= Len(data)
  THEN SubSeq(data, idx * pt_size + 1, (idx + 1) * pt_size)
  ELSE <<>>

TransposeHolds(h, w) ==
  /\ \A i \in 0 .. w - 1, j \in 0 .. h - 1 :
       RecordAt(ret.msg.data, j * w + i) = call.cloud.points[i * h + j + 1]
  /\ \A slot \in 0 .. h * w - 1 :
       Cardinality({ij \in (0 .. w - 1) \X (0 .. h - 1) :
                      DstIndex(ij[1], ij[2], w, h) = slot}) = 1
  /\ ret.reads = 0 .. h * w - 1

\* C1: point-cloud toMsg is an exact transpose: for every height > 0 and
\* realwidth > 0 and every input holding at least height * realwidth records,
\* the output record at offset j * realwidth + i is the input record at offset
\* i * height + j, every output slot is written exactly once, and the records
\* past height * realwidth are never read.
C1_ExactTranspose ==
  (/\ CloudReturned
   /\ call.cloud.height > 0
   /\ call.realwidth > 0
   /\ Len(call.cloud.points) >= call.cloud.height * call.realwidth)
  => TransposeHolds(call.cloud.height, call.realwidth)

\* The transpose is exact whenever the largest offset, height * realwidth - 1,
\* is representable in the 32-bit index arithmetic.
TransposeExactBelowWrap ==
  (/\ CloudReturned
   /\ call.cloud.height > 0
   /\ call.realwidth > 0
   /\ Len(call.cloud.points) >= call.cloud.height * call.realwidth
   /\ call.cloud.height * call.realwidth <= U32)
  => TransposeHolds(call.cloud.height, call.realwidth)

TransposeBelowWrapReached ==
  /\ CloudReturned
  /\ call.cloud.height > 1
  /\ call.realwidth > 1
  /\ Len(call.cloud.points) > call.cloud.height * call.realwidth
  /\ call.cloud.height * call.realwidth <= U32
  /\ call.cloud.points[1] # call.cloud.points[2]

\* the samples of the first bound entries of scans whose ring is the target
Matching(scans, bound, ring) ==
  SelectSeq(SubSeq(scans, 1, bound), LAMBDA s : s.ring = ring)

FilterHolds(bound) ==
  LET m == Matching(call.scans, bound, call.ring_to_use)
  IN /\ ret.msg.ranges = [k \in 1 .. Len(m) |-> Real(m[k].range, 1, 0 - 3, 0)]
     /\ ret.msg.intensities = [k \in 1 .. Len(m) |-> m[k].intensity]
     /\ Len(ret.msg.ranges) = Len(ret.msg.intensities)
     /\ Len(ret.msg.ranges) <= bound

\* C2: scan toMsg is a stable filter over the scanned prefix: for every sample
\* sequence of length >= num_lasers * realwidth and every target ring, ranges
\* and intensities are (range * 1e-3, intensity) of the samples at indices
\* < num_lasers * realwidth whose ring is the target ring, in input order.
C2_StableFilter ==
  (ScanReturned /\ Len(call.scans) >= call.num_lasers * call.realwidth)
  => FilterHolds(call.num_lasers * call.realwidth)

\* The filter is exact whenever num_lasers * realwidth fits in 32 bits and
\* the sequence is not empty.
FilterExactBelowWrap ==
  (/\ ScanReturned
   /\ Len(call.scans) >= call.num_lasers * call.realwidth
   /\ call.num_lasers * call.realwidth < U32)
  => FilterHolds(call.num_lasers * call.realwidth)

C3_Input ==
  <<[range |-> 5, intensity |-> 10, ring |-> 0, t |-> 100],
    [range |-> 3, intensity |-> 20, ring |-> 1, t |-> 200],
    [range |-> 7, intensity |-> 30, ring |-> 0, t |-> 300]>>

C3_Case ==
  /\ ScanReturned
  /\ call.scans = C3_Input
  /\ call.num_lasers = 2
  /\ call.realwidth = 1
  /\ call.ring_to_use = 0

\* C3 (as claimed): for the three-sample input with num_lasers = 2,
\* realwidth = 1 and ring 0, the output is ranges [0.005, 0.007] and
\* intensities [10, 30].
C3_BothRingZeroSamples ==
  C3_Case =>
    /\ ret.msg.ranges = <<Real(5, 1, 0 - 3, 0), Real(7, 1, 0 - 3, 0)>>
    /\ ret.msg.intensities = <<10, 30>>

\* C3 (amended): for that input only the first num_lasers * realwidth = 2
\* samples are scanned, so the output is ranges [0.005] and intensities [10];
\* the third sample, of ring 0, lies past the prefix and is left out.
C3_PrefixOnly ==
  C3_Case =>
    /\ ret.msg.ranges = <<Real(5, 1, 0 - 3, 0)>>
    /\ ret.msg.intensities = <<10>>
    /\ ret.reads = {0, 1}

C3_Reached == C3_Case /\ Len(ret.msg.ranges) = 1 /\ ~ret.ub

\* C4: the wire buffer of point-cloud toMsg is shape-consistent for every
\* height >= 0 and realwidth >= 0: width = realwidth, height = input height,
\* point_step = record size, row_step = point_step * realwidth, data length =
\* point_step * height * realwidth whatever the input holds; with height = 0
\* or realwidth = 0 the data is empty, nothing is copied and nothing faults.
C4_ShapeConsistent ==
  CloudCall =>
    /\ ret.status = "ok" =>
         /\ ret.msg.width = call.realwidth
         /\ ret.msg.height = call.cloud.height
         /\ ret.msg.point_step = pt_size
         /\ ret.msg.row_step = pt_size * call.realwidth
         /\ Len(ret.msg.data) = pt_size * call.cloud.height * call.realwidth
    /\ (call.cloud.height = 0 \/ call.realwidth = 0) =>
         /\ ret.status = "ok"
         /\ ret.msg.data = <<>>
         /\ ret.reads = {}

\* The shape holds modulo the width of the fields: row_step in 32 bits, the
\* data length in std::size_t.
ShapeConsistentModuloWidth ==
  CloudCall =>
    /\ ret.status = "ok" =>
         /\ ret.msg.width = call.realwidth
         /\ ret.msg.height = call.cloud.height
         /\ ret.msg.point_step = pt_size
         /\ ret.msg.row_step = (pt_size * call.realwidth) % U32
         /\ Len(ret.msg.data) = (pt_size * call.cloud.height * call.realwidth) % SIZE
    /\ (call.cloud.height = 0 \/ call.realwidth = 0) =>
         /\ ret.status = "ok"
         /\ ret.msg.data = <<>>
         /\ ret.reads = {}

\* C5: scan toMsg with realwidth = 0 returns an empty, valid message with
\* well-defined time_increment and angle_increment: no division by zero, no
\* sample read, no fault.
C5_ZeroWidthScan ==
  (ScanCall /\ call.realwidth = 0) =>
    /\ ret.status = "ok"
    /\ ret.msg.ranges = <<>>
    /\ ret.msg.intensities = <<>>
    /\ Finite(ret.msg.time_increment)
    /\ Finite(ret.msg.angle_increment)
    /\ ret.reads = {}

\* C6: the timing fields depend only on scans[0].t and realwidth: for
\* realwidth > 0, scan_time is scans[0].t nanoseconds in seconds,
\* time_increment * realwidth = scan_time, angle_increment * realwidth = 2 pi,
\* angle_min = 0, angle_max = 2 pi, range_min = 0.025, range_max = 20.0.
C6_Timing ==
  (ScanReturned /\ call.realwidth > 0 /\ Len(call.scans) > 0) =>
    /\ ret.msg.scan_time = Real(call.scans[1].t, 1, 0 - 9, 0)
    /\ EqReal(MulReal(ret.msg.time_increment, call.realwidth), ret.msg.scan_time)
    /\ EqReal(MulReal(ret.msg.angle_increment, call.realwidth), Real(2, 1, 0, 1))
    /\ ret.msg.angle_min = Real(0, 1, 0, 0)
    /\ ret.msg.angle_max = Real(2, 1, 0, 1)
    /\ ret.msg.range_min = Real(25, 1, 0 - 3, 0)
    /\ ret.msg.range_max = Real(20, 1, 0, 0)

C6_Reached ==
  /\ ScanReturned
  /\ call.realwidth > 1
  /\ call.num_lasers > 1
  /\ Len(call.scans) > 2
  /\ call.scans[1].ring # call.ring_to_use
  /\ Len(ret.msg.ranges) > 0
  /\ ret.msg.scan_time = Real(5000000, 1, 0 - 9, 0)
  /\ ret.msg.time_increment = Real(5000000, call.realwidth, 0 - 9, 0)

IdentityUpper == <<1, 0, 0, 0, 0, 1, 0, 0, 0, 0, 1, 0>>

\* C7: transform toMsg on a 16-element row-major matrix m returns translation
\* (m[3], m[7], m[11]) / 1000 and the rotation of m[0..2], m[4..6], m[8..10];
\* m[12..15] are not used; frames and timestamp pass through; the identity
\* gives zero translation and identity rotation; a matrix whose length is
\* not 16 trips the assertion and returns nothing.
C7_Transform ==
  TransformCall =>
    IF Len(call.mat) = 16
    THEN /\ ret.status = "ok"
         /\ \A k \in 1 .. 3 :
              /\ Finite(ret.msg.transform.translation[k])
              /\ ret.msg.transform.translation[k].num * 1000
                   = call.mat[4 * k] * ret.msg.transform.translation[k].den
              /\ ret.msg.transform.translation[k].e10 = 0
              /\ ret.msg.transform.translation[k].pi = 0
         /\ ret.msg.transform.rotation =
              <<call.mat[1], call.mat[2], call.mat[3],
                call.mat[5], call.mat[6], call.mat[7],
                call.mat[9], call.mat[10], call.mat[11]>>
         /\ ret.msg.frame_id = call.frame
         /\ ret.msg.child_frame_id = call.child_frame
         /\ ret.msg.stamp = call.time
         /\ SubSeq(call.mat, 1, 12) = IdentityUpper =>
              /\ \A k \in 1 .. 3 : ret.msg.transform.translation[k].num = 0
              /\ ret.msg.transform.rotation = <<1, 0, 0, 0, 1, 0, 0, 0, 1>>
    ELSE ret.status = "assert"

C7_Reached ==
  /\ TransformCall
  /\ ret.status = "ok"
  /\ call.mat[13] # 0
  /\ call.mat[4] # 0
  /\ call.mat[4] # call.mat[13]
  /\ ret.msg.transform.translation[2] = Real(0 - 2000, 1000, 0, 0)
  /\ call.frame # call.child_frame

\* C8: the endianness flag is computed once before first use and never changes:
\* it is "not big-endian" exactly when the lowest-address byte of the 16-bit
\* value 0x0001 is 0x01, and every wire buffer carries that value.
C8_EndiannessFlag ==
  /\ [][initialized => (initialized' /\ IS_BIGENDIAN' = IS_BIGENDIAN)]_vars
  /\ [](call # NoCall => initialized)
  /\ [](initialized => (IS_BIGENDIAN = FALSE <=> BytesOfOne(host)[1] = 1))
  /\ [](CloudReturned => ret.msg.is_bigendian = IS_BIGENDIAN)

C8_Reached ==
  /\ CloudReturned
  /\ host = "big"
  /\ ret.msg.is_bigendian = TRUE
  /\ Len(ret.msg.data) > 0

\* C10: scan toMsg reads only inside the scanned prefix: for every input of
\* length >= num_lasers * realwidth (the empty sequence with product 0
\* included) every index read is < num_lasers * realwidth and < the length,
\* and the prefix bound is the true product, not one wrapped modulo 2^32.
C10_ReadsInsidePrefix ==
  (ScanCall /\ Len(call.scans) >= call.num_lasers * call.realwidth) =>
    /\ \A i \in ret.reads :
         i < call.num_lasers * call.realwidth /\ i < Len(call.scans)
    /\ RealSize(call.num_lasers, call.realwidth) = call.num_lasers * call.realwidth

\* With a first sample present, the loop reads exactly the indices below the
\* wrapped bound, all of them inside the sequence.
LoopReadsBelowWrappedBound ==
  (/\ ScanCall
   /\ Len(call.scans) >= call.num_lasers * call.realwidth
   /\ Len(call.scans) > 0) =>
    /\ ret.reads = {0} \cup (0 .. RealSize(call.num_lasers, call.realwidth) - 1)
    /\ \A i \in ret.reads : i < Len(call.scans)
    /\ ~ret.ub
\* what the call of a slot returns when it runs alone
AloneOutcomes(args) ==
  IF args.kind = "cloud"
  THEN Outcomes(toMsg_PointCloud2(args.cloud, args.realwidth, args.timestamp,
                                  args.frame, IS_BIGENDIAN, 0))
  ELSE Outcomes(toMsg_LaserScan(args.scans, args.realwidth, args.timestamp,
                                args.frame, args.num_lasers, args.ring_to_use, 0))

\* C9: conversions of successive revolutions that run interleaved, each on its
\* own input, return what they return when run alone; no call modifies its
\* input buffer or the realwidth it is handed by reference, and the only
\* shared state, the endianness flag, is not written.
C9_Independent ==
  /\ [](\A s \in Slots : cpos[s].pc = "done" => cret[s] \in AloneOutcomes(cargs[s]))
  /\ [][\A s \in Slots :
          (cargs[s] # NoCall /\ cargs'[s] # NoCall) => cargs'[s] = cargs[s]]_vars
  /\ [][initialized => IS_BIGENDIAN' = IS_BIGENDIAN]_vars

C9_Reached ==
  /\ cpos[1].pc = "done"
  /\ cpos[1].mixed
  /\ cargs[1].kind = "cloud"
  /\ Len(cargs[1].cloud.points) > 2
  /\ cpos[2].pc = "done"
  /\ cpos[2].mixed
  /\ cargs[2].kind = "cloud"
  /\ cargs[2].cloud # cargs[1].cloud
====
